---- MODULE Spec2Model ----
(***************************************************************************)
(* Booking lifecycle, role-based visibility and notification fan-out of    *)
(* the design marketplace backend (api/views.py, api/serializers.py,       *)
(* api/models.py).  Each request handler is one action; the database      *)
(* tables are the variables.                                              *)
(***************************************************************************)
EXTENDS Integers, Sequences, FiniteSets, TLC

VARIABLES
    designs,        \* table api_design: id -> row (rows of deleted designs are gone)
    design_seq,     \* last id the design table handed out (ids are not reused)
    bookings,       \* table api_booking: sequence of rows, id = index
    notifications,  \* table api_notification: sequence of rows, id = index
    response,       \* the last request served and the outcome the handler gave it
    images,         \* table api_designimage: sequence of rows, id = index; the
                    \* row of a deleted image stays as a row of no design
    like_requests,  \* the POST /designs/{pk}/like/ requests being served: for
                    \* each, where its handler stands and its local `design`
    update_requests \* the PUT / PATCH /bookings/{pk}/ requests being served:
                    \* for each, where its handler stands, its local
                    \* `instance` and its request body

vars == <<designs, design_seq, bookings, notifications, response, images,
          like_requests, update_requests>>

----------------------------------------------------------------------------
(* Bounds of the model.                                                    *)

MaxBookings == 1
MaxNotifications == 3
MaxDesigns == 2

----------------------------------------------------------------------------
(* Users.  The user table is fixed: three ordinary accounts and one staff  *)
(* account.  request.user is either one of them or Django's AnonymousUser. *)

\* SQL NULL / Python None for a foreign key or an id.
NULL == 0

UserIds == {1, 2, 3, 4}
StaffIds == {4}

User(id) == [id |-> id, is_authenticated |-> TRUE, is_staff |-> id \in StaffIds]
AnonymousUser == [id |-> NULL, is_authenticated |-> FALSE, is_staff |-> FALSE]
Requesters == {User(id) : id \in UserIds} \cup {AnonymousUser}

----------------------------------------------------------------------------
(* Choices of the model fields.                                            *)

DESIGN_STATUS_CHOICES == {"draft", "pending", "approved", "rejected"}
STATUS_CHOICES == {"pending", "confirmed", "in_progress", "completed", "cancelled"}
PAYMENT_STATUS_CHOICES == {"pending", "paid", "partially_paid", "failed", "refunded"}
NOTIFICATION_TYPES == {"booking_request", "booking_confirmed", "booking_cancelled",
                       "new_message", "new_review", "design_approved",
                       "design_rejected", "payment_received"}

\* Outcomes of a request, one per response class the framework produces.
Outcomes == {"ok", "created", "no_content", "bad_request", "not_authenticated",
             "forbidden", "not_found", "server_error"}

----------------------------------------------------------------------------
(* Request bodies and query strings are Python dicts: functions whose      *)
(* domain is the set of keys present.                                      *)

EmptyDict == [k \in {} |-> NULL]
Item(key, value) == [k \in {key} |-> value]
Update(d, e) ==
    [k \in DOMAIN d \cup DOMAIN e |-> IF k \in DOMAIN e THEN e[k] ELSE d[k]]

----------------------------------------------------------------------------
(* Rows.                                                                   *)

\* Design.likes = PositiveIntegerField(default=0): no creation path sets it.
DesignRow(designer, status, price) ==
    [designer |-> designer, status |-> status, price |-> price, likes |-> 0]

\* A DesignImage row; the image file itself is kept by the blob store, the
\* model keeps the design it belongs to and its caption.
DesignImageRow(design, caption) == [design |-> design, caption |-> caption]

\* What the image table keeps at the id of a deleted row: nothing of any design.
DeletedImage == DesignImageRow(NULL, "")

ImageIds == {i \in 1..Len(images) : images[i].design # NULL}
ImagesOf(design) == {i \in ImageIds : images[i].design = design}

\* Notification.objects.create(user=..., notification_type=..., related_id=...):
\* is_read takes the field default, False.
Notification_create(user, notification_type, related_id) ==
    [user |-> user, notification_type |-> notification_type,
     related_id |-> related_id, is_read |-> FALSE]

BookingIds == 1..Len(bookings)
DesignIds == DOMAIN designs

\* What the model keeps of the last request served: the view action, the
\* outcome, for a listing or a retrieve the ids of the rows returned, and for a
\* create the request body.
Response(action, outcome, data, body) ==
    [action |-> action, outcome |-> outcome, data |-> data, body |-> body]

----------------------------------------------------------------------------
(* BookingSerializer (api/serializers.py) over the Booking model fields    *)
(* (api/models.py).  The date and location fields are taken as present and *)
(* well-formed in every request body.                                      *)

\* Booking.amount: DecimalField(validators=[MinValueValidator(0)]), no default.
Booking_amount ==
    [has_default |-> FALSE, default |-> NULL, blank |-> FALSE, null |-> FALSE,
     min_value |-> 0]

\* Booking.deposit: DecimalField(default=0, validators=[MinValueValidator(0)]).
Booking_deposit ==
    [has_default |-> TRUE, default |-> 0, blank |-> FALSE, null |-> FALSE,
     min_value |-> 0]

BookingSerializer_fields ==
    {"id", "client", "designer", "design", "design_id", "status",
     "payment_status", "amount", "deposit"}

\* BookingSerializer_read_only_fields had Meta left out 'payment_status'.
BookingSerializer_read_only_fields_without_payment_status ==
    {"id", "client", "designer", "status"}

BookingSerializer_read_only_fields ==
    {"id", "client", "designer", "status", "payment_status"}

\* The nested design = DesignSerializer(read_only=True) is read-only as well.
BookingSerializer_writable ==
    (BookingSerializer_fields \ BookingSerializer_read_only_fields) \ {"design"}

\* A ModelSerializer field built from a model field is required unless the
\* model field has a default, is blank=True or is null=True.
required(model_field) ==
    ~(model_field.has_default \/ model_field.blank \/ model_field.null)

\* DecimalField_invalid had the model validator not been carried over to the
\* serializer field: any value present passes.
DecimalField_invalid_no_min_value(data, name, model_field) ==
    IF name \in DOMAIN data
    THEN FALSE
    ELSE required(model_field)

\* A decimal field of the serializer rejects the body: the key is absent and the
\* field required, or the value is below the model validator's minimum.
DecimalField_invalid(data, name, model_field) ==
    IF name \in DOMAIN data
    THEN data[name] < model_field.min_value
    ELSE required(model_field)

\* design_id = PrimaryKeyRelatedField(queryset=Design.objects.all()): required,
\* and the pk must be a row of the design table.
design_id_invalid(data) ==
    \/ "design_id" \notin DOMAIN data
    \/ data["design_id"] \notin DesignIds

BookingSerializer_is_valid(data) ==
    /\ ~design_id_invalid(data)
    /\ ~DecimalField_invalid(data, "amount", Booking_amount)
    /\ ~DecimalField_invalid(data, "deposit", Booking_deposit)

\* validated_data: the writable fields present in the body, design_id under its
\* source name 'design'; read-only fields in the body are dropped.
BookingSerializer_validated_data(data) ==
    LET present == BookingSerializer_writable \cap DOMAIN data
        source(f) == IF f = "design_id" THEN "design" ELSE f
    IN  [k \in {source(f) : f \in present} |->
            IF k = "design" THEN data["design_id"] ELSE data[k]]

\* BookingSerializer_create had it set validated_data['designer'] = user.
BookingSerializer_create_designer_is_user(user, validated_data) ==
    [client |-> user.id,
     designer |-> user.id,
     design |-> validated_data["design"],
     status |-> "pending",
     payment_status |-> "pending",
     amount |-> IF "amount" \notin DOMAIN validated_data
                THEN designs[validated_data["design"]].price
                ELSE validated_data["amount"],
     deposit |-> IF "deposit" \notin DOMAIN validated_data
                 THEN 0
                 ELSE validated_data["deposit"]]

BookingSerializer_create(user, validated_data) ==
    LET design == designs[validated_data["design"]]
        amount == IF "amount" \notin DOMAIN validated_data
                  THEN design.price
                  ELSE validated_data["amount"]
        deposit == IF "deposit" \notin DOMAIN validated_data
                   THEN 0
                   ELSE validated_data["deposit"]
    IN  [client |-> user.id,
         designer |-> design.designer,
         design |-> validated_data["design"],
         status |-> "pending",
         payment_status |-> "pending",
         amount |-> amount,
         deposit |-> deposit]

----------------------------------------------------------------------------
(* BookingViewSet (api/views.py).                                          *)

\* permission_classes = [IsAuthenticated]
IsAuthenticated(user) == user.is_authenticated

\* The views open no transaction of their own: whether the statements of one
\* request commit together is the ATOMIC_REQUESTS entry of the database
\* settings (backend/settings.py).  The settings module is not among the
\* sources; the value is the one the specification states (section 5: one
\* atomic unit of work per request).
ATOMIC_REQUESTS_autocommit == FALSE

ATOMIC_REQUESTS == TRUE

\* BookingViewSet_get_queryset had it left out the `if user.is_staff` branch.
BookingViewSet_get_queryset_no_staff_branch(user) ==
    {b \in BookingIds :
        bookings[b].client = user.id \/ bookings[b].designer = user.id}

\* BookingViewSet_get_queryset had the filter kept Q(designer=user) alone.
BookingViewSet_get_queryset_designer_only(user) ==
    IF user.is_staff
    THEN BookingIds
    ELSE {b \in BookingIds : bookings[b].designer = user.id}

BookingViewSet_get_queryset(user) ==
    IF user.is_staff
    THEN BookingIds
    ELSE {b \in BookingIds :
            bookings[b].client = user.id \/ bookings[b].designer = user.id}

\* perform_create_notification had it named booking.client as the user.
perform_create_notification_to_client(booking, id) ==
    Notification_create(booking.client, "booking_request", id)

\* perform_create: the notification for the designer of the new booking.
perform_create_notification(booking, id) ==
    Notification_create(booking.designer, "booking_request", id)

\* confirm: the notification for the client of the confirmed booking.
confirm_notification(booking, id) ==
    Notification_create(booking.client, "booking_confirmed", id)

\* confirm_allowed had the check left out `and not request.user.is_staff`.
confirm_allowed_designer_only(user, booking) ==
    ~(booking.designer # user.id)

\* Who passes the check at the head of confirm / cancel.
confirm_allowed(user, booking) ==
    ~(booking.designer # user.id /\ ~user.is_staff)

cancel_allowed(user, booking) ==
    ~(booking.client # user.id /\ booking.designer # user.id /\ ~user.is_staff)

\* POST /bookings/ : create -> serializer.is_valid -> perform_create.
BookingViewSet_create(user, data) ==
    IF ~IsAuthenticated(user)
    THEN /\ response' = Response("create", "not_authenticated", {}, data)
         /\ UNCHANGED <<designs, design_seq, bookings, notifications, images, like_requests, update_requests>>
    ELSE IF ~BookingSerializer_is_valid(data)
    THEN /\ response' = Response("create", "bad_request", {}, data)
         /\ UNCHANGED <<designs, design_seq, bookings, notifications, images, like_requests, update_requests>>
    ELSE LET booking == BookingSerializer_create(
                            user, BookingSerializer_validated_data(data))
             id == Len(bookings) + 1
         IN  /\ Len(bookings) < MaxBookings
             /\ Len(notifications) < MaxNotifications
             /\ bookings' = Append(bookings, booking)
             /\ notifications' = Append(notifications,
                    perform_create_notification(booking, id))
             /\ response' = Response("create", "created", {id}, data)
             /\ UNCHANGED <<designs, design_seq, images, like_requests, update_requests>>

\* POST /bookings/{pk}/confirm/
BookingViewSet_confirm(user, pk) ==
    IF ~IsAuthenticated(user)
    THEN /\ response' = Response("confirm", "not_authenticated", {}, EmptyDict)
         /\ UNCHANGED <<designs, design_seq, bookings, notifications, images, like_requests, update_requests>>
    ELSE IF pk \notin BookingViewSet_get_queryset(user)
    THEN /\ response' = Response("confirm", "not_found", {}, EmptyDict)
         /\ UNCHANGED <<designs, design_seq, bookings, notifications, images, like_requests, update_requests>>
    ELSE IF ~confirm_allowed(user, bookings[pk])
    THEN /\ response' = Response("confirm", "forbidden", {}, EmptyDict)
         /\ UNCHANGED <<designs, design_seq, bookings, notifications, images, like_requests, update_requests>>
    ELSE IF bookings[pk].design = NULL
    THEN \* booking.design.title raises on None after the status was saved; the
         \* row keeps the new status unless the request runs in a transaction.
         /\ bookings' = IF ATOMIC_REQUESTS
                        THEN bookings
                        ELSE [bookings EXCEPT ![pk].status = "confirmed"]
         /\ response' = Response("confirm", "server_error", {}, EmptyDict)
         /\ UNCHANGED <<designs, design_seq, notifications, images, like_requests, update_requests>>
    ELSE /\ Len(notifications) < MaxNotifications
         /\ bookings' = [bookings EXCEPT ![pk].status = "confirmed"]
         /\ notifications' = Append(notifications,
                confirm_notification(bookings[pk], pk))
         /\ response' = Response("confirm", "ok", {}, EmptyDict)
         /\ UNCHANGED <<designs, design_seq, images, like_requests, update_requests>>

\* POST /bookings/{pk}/cancel/
BookingViewSet_cancel(user, pk) ==
    IF ~IsAuthenticated(user)
    THEN /\ response' = Response("cancel", "not_authenticated", {}, EmptyDict)
         /\ UNCHANGED <<designs, design_seq, bookings, notifications, images, like_requests, update_requests>>
    ELSE IF pk \notin BookingViewSet_get_queryset(user)
    THEN /\ response' = Response("cancel", "not_found", {}, EmptyDict)
         /\ UNCHANGED <<designs, design_seq, bookings, notifications, images, like_requests, update_requests>>
    ELSE IF ~cancel_allowed(user, bookings[pk])
    THEN /\ response' = Response("cancel", "forbidden", {}, EmptyDict)
         /\ UNCHANGED <<designs, design_seq, bookings, notifications, images, like_requests, update_requests>>
    ELSE /\ bookings' = [bookings EXCEPT ![pk].status = "cancelled"]
         /\ response' = Response("cancel", "ok", {}, EmptyDict)
         /\ UNCHANGED <<designs, design_seq, notifications, images, like_requests, update_requests>>

\* POST /bookings/ when Notification.objects.create raises (the database
\* refuses the insert): serializer.save() has inserted the booking by then; the
\* exception leaves the view, the response is 500, and the booking row stays
\* unless the request ran in one transaction.
BookingViewSet_create_notification_fails(user, data) ==
    /\ IsAuthenticated(user)
    /\ BookingSerializer_is_valid(data)
    /\ Len(bookings) < MaxBookings
    /\ bookings' = IF ATOMIC_REQUESTS
                   THEN bookings
                   ELSE Append(bookings, BookingSerializer_create(
                            user, BookingSerializer_validated_data(data)))
    /\ response' = Response("create", "server_error", {}, data)
    /\ UNCHANGED <<designs, design_seq, notifications, images, like_requests, update_requests>>

\* POST /bookings/{pk}/confirm/ when Notification.objects.create raises:
\* booking.save(update_fields=['status']) has run by then.
BookingViewSet_confirm_notification_fails(user, pk) ==
    /\ IsAuthenticated(user)
    /\ pk \in BookingViewSet_get_queryset(user)
    /\ confirm_allowed(user, bookings[pk])
    /\ bookings' = IF ATOMIC_REQUESTS
                   THEN bookings
                   ELSE [bookings EXCEPT ![pk].status = "confirmed"]
    /\ response' = Response("confirm", "server_error", {}, EmptyDict)
    /\ UNCHANGED <<designs, design_seq, notifications, images, like_requests, update_requests>>

----------------------------------------------------------------------------
(* DesignViewSet (api/views.py): the catalogue and its visibility.         *)

\* permission_classes = [IsAuthenticatedOrReadOnly]: safe methods for everyone,
\* the others for authenticated users.
IsAuthenticatedOrReadOnly(user, safe_method) ==
    safe_method \/ user.is_authenticated

\* Python's str.isdigit() and int() on the values the model sends as ?designer=.
DigitStrings == {"1", "2", "3", "4", "7"}
isdigit(s) == s \in DigitStrings
int(s) == CASE s = "1" -> 1 [] s = "2" -> 2 [] s = "3" -> 3 [] s = "4" -> 4
            [] s = "7" -> 7

\* query_params.get('designer'): None when the key is absent.  None and the
\* empty string are both falsy and both differ from 'me'; the model writes "".
query_params_get(query_params, key) ==
    IF key \in DOMAIN query_params THEN query_params[key] ELSE ""

\* DesignViewSet_get_queryset had the filter for authenticated users been
\* Q(status='approved') & Q(designer=user).
DesignViewSet_get_queryset_and(user, query_params) ==
    LET designer_filter == query_params_get(query_params, "designer")
    IN  IF designer_filter = "me"
        THEN IF ~user.is_authenticated
             THEN {}
             ELSE {d \in DesignIds : designs[d].designer = user.id}
        ELSE IF designer_filter # "" /\ isdigit(designer_filter)
        THEN {d \in DesignIds : designs[d].designer = int(designer_filter)}
        ELSE IF user.is_staff
        THEN DesignIds
        ELSE IF user.is_authenticated
        THEN {d \in DesignIds :
                designs[d].status = "approved" /\ designs[d].designer = user.id}
        ELSE {d \in DesignIds : designs[d].status = "approved"}

DesignViewSet_get_queryset(user, query_params) ==
    LET designer_filter == query_params_get(query_params, "designer")
    IN  IF designer_filter = "me"
        THEN IF ~user.is_authenticated
             THEN {}
             ELSE {d \in DesignIds : designs[d].designer = user.id}
        ELSE IF designer_filter # "" /\ isdigit(designer_filter)
        THEN {d \in DesignIds : designs[d].designer = int(designer_filter)}
        ELSE IF user.is_staff
        THEN DesignIds
        ELSE IF user.is_authenticated
        THEN {d \in DesignIds :
                designs[d].status = "approved" \/ designs[d].designer = user.id}
        ELSE {d \in DesignIds : designs[d].status = "approved"}

\* DjangoFilterBackend over filterset_fields 'designer' and 'status' (category
\* and is_premium are not modelled).  ?designer= must be the pk of a user and
\* ?status= one of the status choices, or the filter set is invalid and the
\* request ends 400; an empty value is no filter.
DesignFilter_is_valid(query_params) ==
    /\ \/ query_params_get(query_params, "designer") = ""
       \/ /\ isdigit(query_params["designer"])
          /\ int(query_params["designer"]) \in UserIds
    /\ \/ query_params_get(query_params, "status") = ""
       \/ query_params["status"] \in DESIGN_STATUS_CHOICES

DesignFilter_qs(queryset, query_params) ==
    {d \in queryset :
        /\ \/ query_params_get(query_params, "designer") = ""
           \/ designs[d].designer = int(query_params["designer"])
        /\ \/ query_params_get(query_params, "status") = ""
           \/ designs[d].status = query_params["status"]}

\* GET /designs/ : list -> filter_queryset(get_queryset()).
DesignViewSet_list(user, query_params) ==
    /\ response' =
         IF ~DesignFilter_is_valid(query_params)
         THEN Response("design_list", "bad_request", {}, EmptyDict)
         ELSE Response("design_list", "ok",
                  DesignFilter_qs(DesignViewSet_get_queryset(user, query_params),
                                  query_params),
                  EmptyDict)
    /\ UNCHANGED <<designs, design_seq, bookings, notifications, images, like_requests, update_requests>>

\* GET /designs/{pk}/ : retrieve -> get_object over the same filtered queryset.
DesignViewSet_retrieve(user, pk, query_params) ==
    /\ response' =
         IF ~DesignFilter_is_valid(query_params)
         THEN Response("design_retrieve", "bad_request", {}, EmptyDict)
         ELSE IF pk \notin DesignFilter_qs(
                     DesignViewSet_get_queryset(user, query_params), query_params)
         THEN Response("design_retrieve", "not_found", {}, EmptyDict)
         ELSE Response("design_retrieve", "ok", {pk}, EmptyDict)
    /\ UNCHANGED <<designs, design_seq, bookings, notifications, images, like_requests, update_requests>>

\* Design.price: DecimalField(validators=[MinValueValidator(0)]), no default.
Design_price ==
    [has_default |-> FALSE, default |-> NULL, blank |-> FALSE, null |-> FALSE,
     min_value |-> 0]

\* DesignSerializer: price is required and non-negative; status is writable and,
\* when given, must be one of the choices.  The other fields (title,
\* description, category_id) are taken as present and well-formed.
DesignSerializer_is_valid(data) ==
    /\ ~DecimalField_invalid(data, "price", Design_price)
    /\ "status" \in DOMAIN data => data["status"] \in DESIGN_STATUS_CHOICES

\* DesignViewSet_perform_create had it been serializer.save(designer=
\* self.request.user): the status the body gives, or the field default.
DesignViewSet_perform_create_keeps_status(user, data) ==
    DesignRow(user.id,
              IF "status" \in DOMAIN data THEN data["status"] ELSE "draft",
              data["price"])

\* perform_create: serializer.save(designer=self.request.user, status='pending');
\* the keyword arguments of save() override validated_data.
DesignViewSet_perform_create(user, data) ==
    DesignRow(user.id, "pending", data["price"])

\* POST /designs/
DesignViewSet_create(user, data) ==
    IF ~IsAuthenticatedOrReadOnly(user, FALSE)
    THEN /\ response' = Response("design_create", "not_authenticated", {}, data)
         /\ UNCHANGED <<designs, design_seq, bookings, notifications, images, like_requests, update_requests>>
    ELSE IF ~DesignSerializer_is_valid(data)
    THEN /\ response' = Response("design_create", "bad_request", {}, data)
         /\ UNCHANGED <<designs, design_seq, bookings, notifications, images, like_requests, update_requests>>
    ELSE LET id == design_seq + 1
         IN  /\ design_seq < MaxDesigns
             /\ designs' = [d \in DesignIds \cup {id} |->
                               IF d = id
                               THEN DesignViewSet_perform_create(user, data)
                               ELSE designs[d]]
             /\ design_seq' = id
             /\ response' = Response("design_create", "created", {id}, data)
             /\ UNCHANGED <<bookings, notifications, images, like_requests, update_requests>>

\* Booking.design is on_delete=SET_NULL: deleting a design nulls the reference
\* of every booking that points at it.
Design_delete_cascade(pk) ==
    [b \in BookingIds |->
        IF bookings[b].design = pk
        THEN [bookings[b] EXCEPT !.design = NULL]
        ELSE bookings[b]]

\* DesignImage.design is on_delete=CASCADE: deleting a design deletes its images.
DesignImage_delete_cascade(pk) ==
    [i \in 1..Len(images) |->
        IF images[i].design = pk THEN DeletedImage ELSE images[i]]

\* DELETE /designs/{pk}/ : the destroy of ModelViewSet, not overridden.
DesignViewSet_destroy(user, pk, query_params) ==
    IF ~IsAuthenticatedOrReadOnly(user, FALSE)
    THEN /\ response' = Response("design_destroy", "not_authenticated", {}, EmptyDict)
         /\ UNCHANGED <<designs, design_seq, bookings, notifications, images, like_requests, update_requests>>
    ELSE IF ~DesignFilter_is_valid(query_params)
    THEN /\ response' = Response("design_destroy", "bad_request", {}, EmptyDict)
         /\ UNCHANGED <<designs, design_seq, bookings, notifications, images, like_requests, update_requests>>
    ELSE IF pk \notin DesignFilter_qs(
                DesignViewSet_get_queryset(user, query_params), query_params)
    THEN /\ response' = Response("design_destroy", "not_found", {}, EmptyDict)
         /\ UNCHANGED <<designs, design_seq, bookings, notifications, images, like_requests, update_requests>>
    ELSE /\ designs' = [d \in DesignIds \ {pk} |-> designs[d]]
         /\ bookings' = Design_delete_cascade(pk)
         /\ response' = Response("design_destroy", "no_content", {}, EmptyDict)
         /\ images' = DesignImage_delete_cascade(pk)
         /\ UNCHANGED <<design_seq, notifications, like_requests, update_requests>>

\* The admin site's change form of a design (DesignAdmin): a staff user sets
\* its status.
DesignAdmin_change(user, pk, status) ==
    /\ user.is_staff
    /\ pk \in DesignIds
    /\ designs' = [designs EXCEPT ![pk].status = status]
    /\ response' = Response("admin_design_change", "ok", {}, EmptyDict)
    /\ UNCHANGED <<design_seq, bookings, notifications, images, like_requests, update_requests>>

\* DesignSerializer on an update: with partial=True (PATCH) no field is
\* required; what is present is validated as on a create.
DesignSerializer_is_valid_update(data, partial) ==
    /\ IF partial
       THEN "price" \in DOMAIN data => data["price"] >= Design_price.min_value
       ELSE ~DecimalField_invalid(data, "price", Design_price)
    /\ "status" \in DOMAIN data => data["status"] \in DESIGN_STATUS_CHOICES

\* ModelSerializer.update, not overridden: every writable field present in the
\* body is set on the row.  status is writable (it is in Meta.fields and not in
\* read_only_fields); designer, views and likes are read-only.
DesignSerializer_update(design, data) ==
    [design EXCEPT
        !.price = IF "price" \in DOMAIN data THEN data["price"] ELSE @,
        !.status = IF "status" \in DOMAIN data THEN data["status"] ELSE @]

\* PUT (partial = FALSE) and PATCH (partial = TRUE) /designs/{pk}/ : the update
\* and partial_update of ModelViewSet, not overridden; perform_update is
\* serializer.save().  The only permission is IsAuthenticatedOrReadOnly.
DesignViewSet_update(user, pk, data, partial) ==
    IF ~IsAuthenticatedOrReadOnly(user, FALSE)
    THEN /\ response' = Response("design_update", "not_authenticated", {}, data)
         /\ UNCHANGED <<designs, design_seq, bookings, notifications, images, like_requests, update_requests>>
    ELSE IF pk \notin DesignViewSet_get_queryset(user, EmptyDict)
    THEN /\ response' = Response("design_update", "not_found", {}, data)
         /\ UNCHANGED <<designs, design_seq, bookings, notifications, images, like_requests, update_requests>>
    ELSE IF ~DesignSerializer_is_valid_update(data, partial)
    THEN /\ response' = Response("design_update", "bad_request", {}, data)
         /\ UNCHANGED <<designs, design_seq, bookings, notifications, images, like_requests, update_requests>>
    ELSE /\ designs' = [designs EXCEPT ![pk] = DesignSerializer_update(@, data)]
         /\ response' = Response("design_update", "ok", {pk}, data)
         /\ UNCHANGED <<design_seq, bookings, notifications, images, like_requests, update_requests>>

----------------------------------------------------------------------------
(* DesignViewSet.like: the handler reads the row and writes it back in two *)
(* statements, and requests are served concurrently, so it is two steps.   *)

MaxLikeRequests == 3
LikeRequestIds == 1..MaxLikeRequests

\* A like request before its handler ran, after get_object, and after save.
LikeRequest(pc, pk, likes) == [pc |-> pc, pk |-> pk, likes |-> likes]
NoLikeRequests == [r \in LikeRequestIds |-> LikeRequest("received", NULL, 0)]

\* like, first statement: design = self.get_object().
DesignViewSet_like_get_object(r, user, pk) ==
    /\ like_requests[r].pc = "received"
    /\ IF ~IsAuthenticatedOrReadOnly(user, FALSE)
       THEN /\ response' = Response("like", "not_authenticated", {}, EmptyDict)
            /\ UNCHANGED like_requests
       ELSE IF pk \notin DesignViewSet_get_queryset(user, EmptyDict)
       THEN /\ response' = Response("like", "not_found", {}, EmptyDict)
            /\ UNCHANGED like_requests
       ELSE /\ like_requests' = [like_requests EXCEPT
                   ![r] = LikeRequest("loaded", pk, designs[pk].likes)]
            /\ UNCHANGED response
    /\ UNCHANGED <<designs, design_seq, bookings, notifications, images, update_requests>>

\* The value save(update_fields=['likes']) writes: the likes read by get_object
\* plus one, whatever the row holds by now.
like_save(design, row) == design.likes + 1

\* like, the other statements: design.likes = (design.likes or 0) + 1;
\* design.save(update_fields=['likes']); return Response(...).  The save of a
\* row that is gone updates nothing and raises DatabaseError.
DesignViewSet_like_save(r) ==
    LET design == like_requests[r]
    IN  /\ design.pc = "loaded"
        /\ IF design.pk \notin DesignIds
           THEN /\ like_requests' = [like_requests EXCEPT ![r].pc = "failed"]
                /\ response' = Response("like", "server_error", {}, EmptyDict)
                /\ UNCHANGED designs
           ELSE LET likes == like_save(design, designs[design.pk])
                IN  /\ designs' = [designs EXCEPT ![design.pk].likes = likes]
                    /\ like_requests' = [like_requests EXCEPT
                           ![r] = LikeRequest("responded", design.pk, likes)]
                    /\ response' = Response("like", "ok", {design.pk},
                                            Item("likes", likes))
        /\ UNCHANGED <<design_seq, bookings, notifications, images, update_requests>>

----------------------------------------------------------------------------
(* Design images: DesignViewSet.upload_images and the nested               *)
(* DesignImageViewSet at /designs/{design_pk}/images/ (api/views.py).      *)

MaxImages == 2

\* The check at the head of upload_images and of perform_create.
images_allowed(user, design) ==
    ~(design.designer # user.id /\ ~user.is_staff)

\* POST /designs/{pk}/upload_images/ with `files` files under 'images'; every
\* file becomes a row with the body's caption.
DesignViewSet_upload_images(user, pk, files, data) ==
    IF ~IsAuthenticatedOrReadOnly(user, FALSE)
    THEN /\ response' = Response("upload_images", "not_authenticated", {}, data)
         /\ UNCHANGED <<designs, design_seq, bookings, notifications, images, like_requests, update_requests>>
    ELSE IF pk \notin DesignViewSet_get_queryset(user, EmptyDict)
    THEN /\ response' = Response("upload_images", "not_found", {}, data)
         /\ UNCHANGED <<designs, design_seq, bookings, notifications, images, like_requests, update_requests>>
    ELSE IF ~images_allowed(user, designs[pk])
    THEN /\ response' = Response("upload_images", "forbidden", {}, data)
         /\ UNCHANGED <<designs, design_seq, bookings, notifications, images, like_requests, update_requests>>
    ELSE IF files = 0
    THEN /\ response' = Response("upload_images", "bad_request", {}, data)
         /\ UNCHANGED <<designs, design_seq, bookings, notifications, images, like_requests, update_requests>>
    ELSE LET caption == IF "caption" \in DOMAIN data THEN data["caption"] ELSE ""
             created == [idx \in 1..files |-> DesignImageRow(pk, caption)]
         IN  /\ Len(images) + files <= MaxImages
             /\ images' = images \o created
             /\ response' = Response("upload_images", "created",
                                Len(images) + 1..Len(images) + files, data)
             /\ UNCHANGED <<designs, design_seq, bookings, notifications, like_requests, update_requests>>

\* DesignImageSerializer: image is required (ImageField, no default, not blank)
\* unless the update is partial; caption is blank=True, so optional.
DesignImageSerializer_is_valid(data, partial) ==
    partial \/ "image" \in DOMAIN data

\* get_queryset of the nested route: the images of the design in the URL.
DesignImageViewSet_get_queryset(design_pk) == ImagesOf(design_pk)

\* POST /designs/{design_pk}/images/ : create -> is_valid -> perform_create.
DesignImageViewSet_create(user, design_pk, data) ==
    IF ~IsAuthenticatedOrReadOnly(user, FALSE)
    THEN /\ response' = Response("image_create", "not_authenticated", {}, data)
         /\ UNCHANGED <<designs, design_seq, bookings, notifications, images, like_requests, update_requests>>
    ELSE IF ~DesignImageSerializer_is_valid(data, FALSE)
    THEN /\ response' = Response("image_create", "bad_request", {}, data)
         /\ UNCHANGED <<designs, design_seq, bookings, notifications, images, like_requests, update_requests>>
    ELSE IF design_pk \notin DesignIds
    THEN /\ response' = Response("image_create", "not_found", {}, data)
         /\ UNCHANGED <<designs, design_seq, bookings, notifications, images, like_requests, update_requests>>
    ELSE IF ~images_allowed(user, designs[design_pk])
    THEN /\ response' = Response("image_create", "forbidden", {}, data)
         /\ UNCHANGED <<designs, design_seq, bookings, notifications, images, like_requests, update_requests>>
    ELSE LET caption == IF "caption" \in DOMAIN data THEN data["caption"] ELSE ""
         IN  /\ Len(images) < MaxImages
             /\ images' = Append(images, DesignImageRow(design_pk, caption))
             /\ response' = Response("image_create", "created", {Len(images) + 1}, data)
             /\ UNCHANGED <<designs, design_seq, bookings, notifications, like_requests, update_requests>>

\* PUT (partial = FALSE) and PATCH (partial = TRUE)
\* /designs/{design_pk}/images/{pk}/ : the update of ModelViewSet, not
\* overridden.  The view set overrides perform_create alone, so the only
\* permission here is IsAuthenticatedOrReadOnly.
DesignImageViewSet_update(user, design_pk, pk, data, partial) ==
    IF ~IsAuthenticatedOrReadOnly(user, FALSE)
    THEN /\ response' = Response("image_update", "not_authenticated", {}, data)
         /\ UNCHANGED <<designs, design_seq, bookings, notifications, images, like_requests, update_requests>>
    ELSE IF pk \notin DesignImageViewSet_get_queryset(design_pk)
    THEN /\ response' = Response("image_update", "not_found", {}, data)
         /\ UNCHANGED <<designs, design_seq, bookings, notifications, images, like_requests, update_requests>>
    ELSE IF ~DesignImageSerializer_is_valid(data, partial)
    THEN /\ response' = Response("image_update", "bad_request", {}, data)
         /\ UNCHANGED <<designs, design_seq, bookings, notifications, images, like_requests, update_requests>>
    ELSE /\ images' = [images EXCEPT ![pk].caption =
                          IF "caption" \in DOMAIN data THEN data["caption"] ELSE @]
         /\ response' = Response("image_update", "ok", {pk}, data)
         /\ UNCHANGED <<designs, design_seq, bookings, notifications, like_requests, update_requests>>

\* DELETE /designs/{design_pk}/images/{pk}/ : the destroy of ModelViewSet, not
\* overridden.
DesignImageViewSet_destroy(user, design_pk, pk) ==
    IF ~IsAuthenticatedOrReadOnly(user, FALSE)
    THEN /\ response' = Response("image_destroy", "not_authenticated", {}, EmptyDict)
         /\ UNCHANGED <<designs, design_seq, bookings, notifications, images, like_requests, update_requests>>
    ELSE IF pk \notin DesignImageViewSet_get_queryset(design_pk)
    THEN /\ response' = Response("image_destroy", "not_found", {}, EmptyDict)
         /\ UNCHANGED <<designs, design_seq, bookings, notifications, images, like_requests, update_requests>>
    ELSE /\ images' = [images EXCEPT ![pk] = DeletedImage]
         /\ response' = Response("image_destroy", "no_content", {}, EmptyDict)
         /\ UNCHANGED <<designs, design_seq, bookings, notifications, like_requests, update_requests>>

----------------------------------------------------------------------------
(* NotificationViewSet (api/notification_views.py).                        *)

NotificationIds == 1..Len(notifications)

\* NotificationViewSet_get_queryset had it returned Notification.objects.all().
NotificationViewSet_get_queryset_all(user) == NotificationIds

\* get_queryset: Notification.objects.filter(user=self.request.user)
NotificationViewSet_get_queryset(user) ==
    {n \in NotificationIds : notifications[n].user = user.id}

\* POST /notifications/{pk}/mark_read/
NotificationViewSet_mark_read(user, pk) ==
    IF ~IsAuthenticated(user)
    THEN /\ response' = Response("mark_read", "not_authenticated", {}, EmptyDict)
         /\ UNCHANGED <<designs, design_seq, bookings, notifications, images, like_requests, update_requests>>
    ELSE IF pk \notin NotificationViewSet_get_queryset(user)
    THEN /\ response' = Response("mark_read", "not_found", {}, EmptyDict)
         /\ UNCHANGED <<designs, design_seq, bookings, notifications, images, like_requests, update_requests>>
    ELSE IF notifications[pk].user # user.id
    THEN /\ response' = Response("mark_read", "forbidden", {}, EmptyDict)
         /\ UNCHANGED <<designs, design_seq, bookings, notifications, images, like_requests, update_requests>>
    ELSE /\ notifications' = [notifications EXCEPT ![pk].is_read = TRUE]
         /\ response' = Response("mark_read", "ok", {pk}, EmptyDict)
         /\ UNCHANGED <<designs, design_seq, bookings, images, like_requests, update_requests>>

\* mark_all_read_rows had the filter left out is_read=False: every row of the
\* user is counted as updated.
mark_all_read_rows_read_too(user) ==
    {n \in NotificationIds : notifications[n].user = user.id}

\* mark_all_read_rows had the filter left out user=request.user: the unread rows
\* of every user.
mark_all_read_rows_of_every_user(user) ==
    {n \in NotificationIds : notifications[n].is_read = FALSE}

\* The rows mark_all_read updates: filter(user=request.user, is_read=False).
mark_all_read_rows(user) ==
    {n \in NotificationIds :
        notifications[n].user = user.id /\ notifications[n].is_read = FALSE}

\* POST /notifications/mark_all_read/ : the update runs whatever the count;
\* the response is 400 when it is 0, else 200 with the count in its status.
NotificationViewSet_mark_all_read(user) ==
    IF ~IsAuthenticated(user)
    THEN /\ response' = Response("mark_all_read", "not_authenticated", {}, EmptyDict)
         /\ UNCHANGED <<designs, design_seq, bookings, notifications, images, like_requests, update_requests>>
    ELSE LET rows == mark_all_read_rows(user)
             updated == Cardinality(rows)
         IN  /\ notifications' = [n \in NotificationIds |->
                    IF n \in rows
                    THEN [notifications[n] EXCEPT !.is_read = TRUE]
                    ELSE notifications[n]]
             /\ response' = IF updated = 0
                            THEN Response("mark_all_read", "bad_request", {}, EmptyDict)
                            ELSE Response("mark_all_read", "ok", rows,
                                          Item("marked", updated))
             /\ UNCHANGED <<designs, design_seq, bookings, images, like_requests, update_requests>>

----------------------------------------------------------------------------
(* BookingViewSet: the listing, the retrieve and the update of ModelViewSet, *)
(* none overridden.                                                        *)

\* The ids of a table from the newest row to the oldest: ordering = ['-created_at'].
RECURSIVE newest_first(_)
newest_first(n) == IF n = 0 THEN <<>> ELSE <<n>> \o newest_first(n - 1)

\* GET /bookings/ : the rows of get_queryset() in the view's ordering.  The
\* query is one SELECT DISTINCT over the booking table with the two conditions
\* joined by OR, so a row is tested once.
BookingViewSet_list(user) ==
    /\ response' =
         IF ~IsAuthenticated(user)
         THEN Response("booking_list", "not_authenticated", <<>>, EmptyDict)
         ELSE Response("booking_list", "ok",
                  SelectSeq(newest_first(Len(bookings)),
                            LAMBDA b : b \in BookingViewSet_get_queryset(user)),
                  EmptyDict)
    /\ UNCHANGED <<designs, design_seq, bookings, notifications, images, like_requests, update_requests>>

\* GET /bookings/{pk}/
BookingViewSet_retrieve(user, pk) ==
    /\ response' =
         IF ~IsAuthenticated(user)
         THEN Response("booking_retrieve", "not_authenticated", <<>>, EmptyDict)
         ELSE IF pk \notin BookingViewSet_get_queryset(user)
         THEN Response("booking_retrieve", "not_found", <<>>, EmptyDict)
         ELSE Response("booking_retrieve", "ok", <<pk>>, EmptyDict)
    /\ UNCHANGED <<designs, design_seq, bookings, notifications, images, like_requests, update_requests>>

\* BookingSerializer on an update: with partial=True (PATCH) no field is
\* required; what is present is validated as on a create.
BookingSerializer_is_valid_update(data, partial) ==
    IF partial
    THEN /\ "design_id" \in DOMAIN data => data["design_id"] \in DesignIds
         /\ "amount" \in DOMAIN data => data["amount"] >= Booking_amount.min_value
         /\ "deposit" \in DOMAIN data => data["deposit"] >= Booking_deposit.min_value
    ELSE BookingSerializer_is_valid(data)

\* ModelSerializer.update, not overridden: every key of validated_data is set
\* on the row.  status, payment_status, client and designer are read-only and
\* never in validated_data.
BookingSerializer_update(booking, validated_data) ==
    [k \in DOMAIN booking |->
        IF k \in DOMAIN validated_data THEN validated_data[k] ELSE booking[k]]

\* PUT (partial = FALSE) and PATCH (partial = TRUE) /bookings/{pk}/
BookingViewSet_update(user, pk, data, partial) ==
    IF ~IsAuthenticated(user)
    THEN /\ response' = Response("booking_update", "not_authenticated", {}, data)
         /\ UNCHANGED <<designs, design_seq, bookings, notifications, images, like_requests, update_requests>>
    ELSE IF pk \notin BookingViewSet_get_queryset(user)
    THEN /\ response' = Response("booking_update", "not_found", {}, data)
         /\ UNCHANGED <<designs, design_seq, bookings, notifications, images, like_requests, update_requests>>
    ELSE IF ~BookingSerializer_is_valid_update(data, partial)
    THEN /\ response' = Response("booking_update", "bad_request", {}, data)
         /\ UNCHANGED <<designs, design_seq, bookings, notifications, images, like_requests, update_requests>>
    ELSE /\ bookings' = [bookings EXCEPT ![pk] = BookingSerializer_update(
                            @, BookingSerializer_validated_data(data))]
         /\ response' = Response("booking_update", "ok", {pk}, data)
         /\ UNCHANGED <<designs, design_seq, notifications, images, like_requests, update_requests>>

----------------------------------------------------------------------------
(* BookingViewSet update served concurrently with other requests on the    *)
(* booking: UpdateModelMixin.update reads the row (get_object), validates, *)
(* and ModelSerializer.update writes it back with instance.save(), which   *)
(* has no update_fields and so writes every column of the row.             *)

MaxUpdateRequests == 1
UpdateRequestIds == 1..MaxUpdateRequests

\* An update request before its handler ran, after get_object and is_valid,
\* and after save.
UpdateRequest(pc, pk, instance, data) ==
    [pc |-> pc, pk |-> pk, instance |-> instance, data |-> data]
NoUpdateRequests ==
    [r \in UpdateRequestIds |-> UpdateRequest("received", NULL, EmptyDict, EmptyDict)]

\* update, up to the save: instance = self.get_object();
\* serializer.is_valid(raise_exception=True).
BookingViewSet_update_get_object(r, user, pk, data, partial) ==
    /\ update_requests[r].pc = "received"
    /\ IF ~IsAuthenticated(user)
       THEN /\ response' = Response("booking_update", "not_authenticated", {}, data)
            /\ UNCHANGED update_requests
       ELSE IF pk \notin BookingViewSet_get_queryset(user)
       THEN /\ response' = Response("booking_update", "not_found", {}, data)
            /\ UNCHANGED update_requests
       ELSE IF ~BookingSerializer_is_valid_update(data, partial)
       THEN /\ response' = Response("booking_update", "bad_request", {}, data)
            /\ UNCHANGED update_requests
       ELSE /\ update_requests' = [update_requests EXCEPT
                   ![r] = UpdateRequest("loaded", pk, bookings[pk], data)]
            /\ UNCHANGED response
    /\ UNCHANGED <<designs, design_seq, bookings, notifications, images, like_requests>>

\* update, the save: perform_update -> serializer.save() ->
\* ModelSerializer.update sets the validated fields on the instance read by
\* get_object and calls instance.save(): the whole row is written from the
\* instance, the status it was read with included.
BookingViewSet_update_save(r) ==
    LET request == update_requests[r]
    IN  /\ request.pc = "loaded"
        /\ bookings' = [bookings EXCEPT ![request.pk] =
                BookingSerializer_update(request.instance,
                    BookingSerializer_validated_data(request.data))]
        /\ update_requests' = [update_requests EXCEPT ![r].pc = "responded"]
        /\ response' = Response("booking_update", "ok", {request.pk},
                                request.data)
        /\ UNCHANGED <<designs, design_seq, notifications, images, like_requests>>

----------------------------------------------------------------------------
(* The requests the model sends.                                           *)

BookingPks == 1..MaxBookings
DesignPks == 1..MaxDesigns

\* Bodies of POST /bookings/.  Around the complete body for each design: amount
\* or deposit absent or negative, design_id absent, and the read-only keys
\* supplied.
BookingBodies ==
    LET read_only == [status |-> "completed", payment_status |-> "paid",
                      client |-> 3, designer |-> 3]
        complete(d) == [design_id |-> d, amount |-> 250, deposit |-> 100]
        around(d) ==
            {complete(d),
             [design_id |-> d, deposit |-> 100],
             [design_id |-> d, amount |-> 250],
             Item("design_id", d),
             [design_id |-> d, amount |-> -1, deposit |-> 100],
             [design_id |-> d, amount |-> 250, deposit |-> -1],
             Update(complete(d), read_only),
             Update([design_id |-> d, amount |-> 250], read_only)}
    IN  {[amount |-> 250, deposit |-> 100]} \cup UNION {around(d) : d \in DesignPks}

\* The well-formed bodies among them, with the read-only keys absent: what the
\* booking engine is driven with once the serializer is not the subject.
ValidBookingBodies ==
    {data \in BookingBodies :
        /\ DOMAIN data \cap BookingSerializer_read_only_fields = {}
        /\ "design_id" \in DOMAIN data
        /\ "deposit" \in DOMAIN data
        /\ ~DecimalField_invalid(data, "amount", Booking_amount)
        /\ ~DecimalField_invalid(data, "deposit", Booking_deposit)}

\* Bodies of POST /designs/: price absent, negative or not; status absent, a
\* choice, or no choice.
DesignBodies ==
    {EmptyDict, Item("price", -1), Item("price", 1000),
     [price |-> 1000, status |-> "approved"], [price |-> 1000, status |-> "bogus"],
     [price |-> 1000, status |-> "approved", designer |-> 3]}

\* Bodies of the image routes: the file present or not, a caption or none.
ImageBodies ==
    {EmptyDict, Item("image", "a.png"), Item("caption", "front"),
     [image |-> "a.png", caption |-> "front"]}

\* Bodies of PUT and PATCH /designs/{pk}/: a status alone, a price with a
\* status, a negative price.
DesignUpdateBodies ==
    {Item("status", "approved"), [price |-> 1000, status |-> "rejected"],
     Item("price", -1)}

ImagePks == 1..MaxImages
NotificationPks == 1..MaxNotifications

\* Bodies of PUT and PATCH /bookings/{pk}/: amounts, another design, and the
\* read-only status keys.
BookingUpdateBodies ==
    {Item("amount", 300), Item("amount", -1),
     [design_id |-> 2, amount |-> 300, deposit |-> 0],
     [status |-> "completed", payment_status |-> "refunded"]}

\* Query strings of the design routes: ?designer= absent, 'me', the id of a
\* user, an id no user has, not a number; with and without ?status=.
DesignerQueryParams ==
    {EmptyDict} \cup {Item("designer", v) : v \in {"me", "1", "2", "7", "x"}}

DesignQueryParams ==
    LET status == {EmptyDict, Item("status", "approved"), Item("status", "bogus")}
    IN  {Update(d, s) : d \in DesignerQueryParams, s \in status}

\* The accounts that book in the booking engine and those that publish designs
\* in the catalogue; the views check neither, the model leaves out the account
\* that adds no case.
Clients == {AnonymousUser, User(1), User(3), User(4)}
Publishers == {AnonymousUser, User(1), User(2), User(4)}

----------------------------------------------------------------------------
(* The booking engine: a catalogue of two designs, bookings through the    *)
(* API.                                                                    *)

\* Two designs as the catalogue holds them once staff have reviewed the first.
Catalogue ==
    (1 :> DesignRow(1, "approved", 1000)) @@ (2 :> DesignRow(2, "pending", 400))

\* A row as the create_sample_data command writes it: any status, any payment
\* status, no notification.
SampleBooking(status, payment_status) ==
    [client |-> 3, designer |-> 1, design |-> 1, status |-> status,
     payment_status |-> payment_status, amount |-> 5000, deposit |-> 100]

SampleBookings ==
    {<<>>} \cup {<<SampleBooking(s, p)>> :
                    s \in STATUS_CHOICES, p \in {"paid"}}

Init ==
    /\ designs = Catalogue
    /\ design_seq = 2
    /\ bookings \in SampleBookings
    /\ notifications = <<>>
    /\ response = Response("none", "ok", {}, EmptyDict)
    /\ images = <<>>
    /\ like_requests = NoLikeRequests
    /\ update_requests = NoUpdateRequests

Next ==
    \/ \E user \in Clients, data \in ValidBookingBodies :
           BookingViewSet_create(user, data)
    \/ \E user \in Requesters, pk \in BookingPks :
           BookingViewSet_confirm(user, pk)
    \/ \E user \in Requesters, pk \in BookingPks :
           BookingViewSet_cancel(user, pk)
    \/ \E user \in Requesters, pk \in DesignPks :
           DesignViewSet_destroy(user, pk, EmptyDict)

Spec == Init /\ [][Next]_vars

----------------------------------------------------------------------------
(* Booking creation alone, with every request body: well-formed or not,    *)
(* keys present or absent, read-only keys supplied or not.                 *)

InitCreate ==
    /\ designs = Catalogue
    /\ design_seq = 2
    /\ bookings = <<>>
    /\ notifications = <<>>
    /\ response = Response("none", "ok", {}, EmptyDict)
    /\ images = <<>>
    /\ like_requests = NoLikeRequests
    /\ update_requests = NoUpdateRequests

NextCreate ==
    \/ \E user \in Requesters, data \in BookingBodies :
           BookingViewSet_create(user, data)
    \/ \E user \in Requesters, pk \in DesignPks :
           DesignViewSet_destroy(user, pk, EmptyDict)

SpecCreate == InitCreate /\ [][NextCreate]_vars

----------------------------------------------------------------------------
(* The catalogue: designs created, reviewed, listed and deleted.           *)

InitCatalog ==
    /\ designs = EmptyDict
    /\ design_seq = NULL
    /\ bookings = <<>>
    /\ notifications = <<>>
    /\ response = Response("none", "ok", {}, EmptyDict)
    /\ images = <<>>
    /\ like_requests = NoLikeRequests
    /\ update_requests = NoUpdateRequests

NextCatalog ==
    \/ \E user \in Publishers, data \in DesignBodies :
           DesignViewSet_create(user, data)
    \/ \E user \in Requesters, pk \in DesignPks, status \in DESIGN_STATUS_CHOICES :
           DesignAdmin_change(user, pk, status)
    \/ \E user \in Requesters, query_params \in DesignQueryParams :
           DesignViewSet_list(user, query_params)
    \/ \E user \in Requesters, pk \in DesignPks, query_params \in DesignerQueryParams :
           DesignViewSet_retrieve(user, pk, query_params)
    \/ \E user \in Requesters, pk \in DesignPks, query_params \in DesignerQueryParams :
           DesignViewSet_destroy(user, pk, query_params)
    \/ \E user \in Publishers, pk \in DesignPks, data \in DesignUpdateBodies,
          partial \in BOOLEAN :
           DesignViewSet_update(user, pk, data, partial)

SpecCatalog == InitCatalog /\ [][NextCatalog]_vars

----------------------------------------------------------------------------
(* Browsing: a catalogue as the create_sample_data command leaves it, every *)
(* design of any designer and any status, listed and retrieved.            *)

SampleCatalogues ==
    [DesignPks -> {DesignRow(designer, status, 1000) :
                      designer \in {1, 2}, status \in DESIGN_STATUS_CHOICES}]

InitBrowse ==
    /\ designs \in SampleCatalogues
    /\ design_seq = MaxDesigns
    /\ bookings = <<>>
    /\ notifications = <<>>
    /\ response = Response("none", "ok", {}, EmptyDict)
    /\ images = <<>>
    /\ like_requests = NoLikeRequests
    /\ update_requests = NoUpdateRequests

NextBrowse ==
    \/ \E user \in Requesters, query_params \in DesignQueryParams :
           DesignViewSet_list(user, query_params)
    \/ \E user \in Requesters, pk \in DesignPks, query_params \in DesignerQueryParams :
           DesignViewSet_retrieve(user, pk, query_params)

SpecBrowse == InitBrowse /\ [][NextBrowse]_vars

----------------------------------------------------------------------------
(* Likes: requests served concurrently on the catalogue of two designs.    *)

InitLike ==
    /\ designs = Catalogue
    /\ design_seq = 2
    /\ bookings = <<>>
    /\ notifications = <<>>
    /\ response = Response("none", "ok", {}, EmptyDict)
    /\ images = <<>>
    /\ like_requests = NoLikeRequests
    /\ update_requests = NoUpdateRequests

NextLike ==
    \/ \E r \in LikeRequestIds, user \in Requesters, pk \in DesignPks :
           DesignViewSet_like_get_object(r, user, pk)
    \/ \E r \in LikeRequestIds :
           DesignViewSet_like_save(r)
    \/ \E user \in Requesters, pk \in DesignPks :
           DesignViewSet_destroy(user, pk, EmptyDict)

SpecLike == InitLike /\ [][NextLike]_vars

----------------------------------------------------------------------------
(* Design images on the catalogue of two designs.                          *)

InitImages ==
    /\ designs = Catalogue
    /\ design_seq = 2
    /\ bookings = <<>>
    /\ notifications = <<>>
    /\ response = Response("none", "ok", {}, EmptyDict)
    /\ images = <<>>
    /\ like_requests = NoLikeRequests
    /\ update_requests = NoUpdateRequests

NextImages ==
    \/ \E user \in Requesters, pk \in DesignPks, files \in 0..2,
          data \in ImageBodies :
           DesignViewSet_upload_images(user, pk, files, data)
    \/ \E user \in Requesters, design_pk \in DesignPks, data \in ImageBodies :
           DesignImageViewSet_create(user, design_pk, data)
    \/ \E user \in Requesters, design_pk \in DesignPks, pk \in ImagePks,
          data \in ImageBodies, partial \in BOOLEAN :
           DesignImageViewSet_update(user, design_pk, pk, data, partial)
    \/ \E user \in Requesters, design_pk \in DesignPks, pk \in ImagePks :
           DesignImageViewSet_destroy(user, design_pk, pk)

SpecImages == InitImages /\ [][NextImages]_vars

----------------------------------------------------------------------------
(* Notifications: made by the booking engine, read by their users.         *)

NextNotify ==
    \/ \E user \in Clients, data \in ValidBookingBodies :
           BookingViewSet_create(user, data)
    \/ \E user \in Requesters, pk \in BookingPks :
           BookingViewSet_confirm(user, pk)
    \/ \E user \in Requesters, pk \in NotificationPks :
           NotificationViewSet_mark_read(user, pk)
    \/ \E user \in Requesters :
           NotificationViewSet_mark_all_read(user)

SpecNotify == Init /\ [][NextNotify]_vars

----------------------------------------------------------------------------
(* Bookings as their parties and staff see them.                           *)

NextVisibility ==
    \/ \E user \in Clients, data \in ValidBookingBodies :
           BookingViewSet_create(user, data)
    \/ \E user \in Requesters :
           BookingViewSet_list(user)
    \/ \E user \in Requesters, pk \in BookingPks :
           BookingViewSet_retrieve(user, pk)
    \/ \E user \in Requesters, pk \in BookingPks, data \in BookingUpdateBodies,
          partial \in BOOLEAN :
           BookingViewSet_update(user, pk, data, partial)

SpecVisibility == Init /\ [][NextVisibility]_vars

----------------------------------------------------------------------------
(* Booking mutations whose notification insert raises.                     *)

NextFaults ==
    \/ \E user \in Clients, data \in ValidBookingBodies :
           BookingViewSet_create(user, data)
    \/ \E user \in Clients, data \in ValidBookingBodies :
           BookingViewSet_create_notification_fails(user, data)
    \/ \E user \in Requesters, pk \in BookingPks :
           BookingViewSet_confirm(user, pk)
    \/ \E user \in Requesters, pk \in BookingPks :
           BookingViewSet_confirm_notification_fails(user, pk)
    \/ \E user \in Requesters, pk \in BookingPks :
           BookingViewSet_cancel(user, pk)
    \/ \E user \in Requesters, pk \in DesignPks :
           DesignViewSet_destroy(user, pk, EmptyDict)

SpecFaults == InitCreate /\ [][NextFaults]_vars

----------------------------------------------------------------------------
(* The life of a booking through the API alone: no row precedes the first  *)
(* Create; bodies of Create and of PUT / PATCH with the read-only keys     *)
(* supplied or not; the updates served concurrently with the rest.         *)

\* The complete bodies of Create for the first design, with and without the
\* read-only keys, and the bodies of PUT / PATCH that name no other design.
LifecycleBodies ==
    {data \in BookingBodies :
        /\ {"design_id", "amount", "deposit"} \subseteq DOMAIN data
        /\ data["design_id"] = 1
        /\ data["amount"] >= 0
        /\ data["deposit"] >= 0}

LifecycleUpdateBodies ==
    {data \in BookingUpdateBodies :
        /\ "design_id" \notin DOMAIN data
        /\ "amount" \in DOMAIN data => data["amount"] >= 0}

\* One account books, and the request may come without credentials.
LifecycleClients == {AnonymousUser, User(3)}

NextLifecycle ==
    \/ \E user \in LifecycleClients, data \in LifecycleBodies :
           BookingViewSet_create(user, data)
    \/ \E r \in UpdateRequestIds, user \in Requesters, pk \in BookingPks,
          data \in LifecycleUpdateBodies, partial \in BOOLEAN :
           BookingViewSet_update_get_object(r, user, pk, data, partial)
    \/ \E r \in UpdateRequestIds :
           BookingViewSet_update_save(r)
    \/ \E user \in Requesters, pk \in BookingPks :
           BookingViewSet_confirm(user, pk)
    \/ \E user \in Requesters, pk \in BookingPks :
           BookingViewSet_cancel(user, pk)

SpecLifecycle == InitCreate /\ [][NextLifecycle]_vars

----------------------------------------------------------------------------
(* Updates of a sample booking served concurrently with its Confirm and    *)
(* Cancel.                                                                 *)

\* Bodies of PUT / PATCH that change the amount, or the amount and the deposit.
RaceUpdateBodies ==
    {data \in BookingUpdateBodies :
        "amount" \in DOMAIN data /\ data["amount"] >= 0}

NextRace ==
    \/ \E r \in UpdateRequestIds, user \in Requesters, pk \in BookingPks,
          data \in RaceUpdateBodies, partial \in BOOLEAN :
           BookingViewSet_update_get_object(r, user, pk, data, partial)
    \/ \E r \in UpdateRequestIds :
           BookingViewSet_update_save(r)
    \/ \E user \in Requesters, pk \in BookingPks :
           BookingViewSet_confirm(user, pk)
    \/ \E user \in Requesters, pk \in BookingPks :
           BookingViewSet_cancel(user, pk)

SpecRace == Init /\ [][NextRace]_vars

----------------------------------------------------------------------------
(* Requests by id on the sample bookings and the notifications of their    *)
(* confirmations: ids that exist, that exist out of the requester's sight, *)
(* and that do not exist.                                                  *)

NextLookup ==
    \/ \E user \in Requesters, pk \in BookingPks :
           BookingViewSet_retrieve(user, pk)
    \/ \E user \in Requesters, pk \in BookingPks :
           BookingViewSet_confirm(user, pk)
    \/ \E user \in Requesters, pk \in BookingPks :
           BookingViewSet_cancel(user, pk)
    \/ \E user \in Requesters, pk \in NotificationPks :
           NotificationViewSet_mark_read(user, pk)

SpecLookup == Init /\ [][NextLookup]_vars

----------------------------------------------------------------------------
(* Properties of the booking engine (Spec).                                *)

\* The notifications of one type that point at one related object.
NotificationsOf(table, notification_type, related_id) ==
    {i \in 1..Len(table) :
        /\ table[i].notification_type = notification_type
        /\ table[i].related_id = related_id}

\* C1: for a booking with a design, Confirm by the booking's designer or by staff
\* succeeds from any prior status: the status becomes confirmed and exactly one
\* notification is added, unread, of type booking_confirmed, for the booking's
\* client, with related_id the booking's id.  Every successful Confirm adds one,
\* and no other step changes how many there are for a booking: k successful
\* Confirms leave k of them.
C1_ConfirmByDesignerOrStaff ==
    [][/\ \A user \in Requesters, pk \in BookingPks :
            (/\ pk \in BookingIds
             /\ bookings[pk].design # NULL
             /\ user.is_authenticated
             /\ (user.id = bookings[pk].designer \/ user.is_staff)
             /\ BookingViewSet_confirm(user, pk))
            => /\ response'.outcome = "ok"
               /\ bookings'[pk].status = "confirmed"
               /\ notifications' = Append(notifications,
                      [user |-> bookings[pk].client,
                       notification_type |-> "booking_confirmed",
                       related_id |-> pk,
                       is_read |-> FALSE])
       /\ \A pk \in BookingPks :
            Cardinality(NotificationsOf(notifications', "booking_confirmed", pk))
            = Cardinality(NotificationsOf(notifications, "booking_confirmed", pk))
              + (IF /\ response'.action = "confirm"
                    /\ response'.outcome = "ok"
                    /\ \E user \in Requesters : BookingViewSet_confirm(user, pk)
                 THEN 1 ELSE 0)
      ]_vars

\* A Confirm has just succeeded on a booking that was confirmed before: it holds
\* two booking_confirmed notifications.
C1_Witness ==
    /\ response.action = "confirm"
    /\ response.outcome = "ok"
    /\ \E pk \in BookingIds :
          /\ bookings[pk].status = "confirmed"
          /\ Cardinality(NotificationsOf(notifications, "booking_confirmed", pk)) = 2

\* C2: Confirm by an authenticated actor who is neither the booking's designer nor
\* staff (its client, or a user unrelated to it) ends with the permission error,
\* and leaves the booking and the notifications as they were.
C2_ConfirmByOthersForbidden ==
    [][\A user \in Requesters, pk \in BookingPks :
            (/\ pk \in BookingIds
             /\ user.is_authenticated
             /\ ~(user.id = bookings[pk].designer \/ user.is_staff)
             /\ BookingViewSet_confirm(user, pk))
            => /\ response'.outcome = "forbidden"
               /\ bookings' = bookings
               /\ notifications' = notifications
      ]_vars

\* C3: Cancel by the booking's client, by its designer or by staff succeeds from
\* any prior status: the status becomes cancelled, every other field of the
\* booking and every other booking stay as they were, and no notification is
\* created.
C3_CancelByPartyOrStaff ==
    [][\A user \in Requesters, pk \in BookingPks :
            (/\ pk \in BookingIds
             /\ user.is_authenticated
             /\ \/ user.id = bookings[pk].client
                \/ user.id = bookings[pk].designer
                \/ user.is_staff
             /\ BookingViewSet_cancel(user, pk))
            => /\ response'.outcome = "ok"
               /\ bookings' = [bookings EXCEPT ![pk].status = "cancelled"]
               /\ notifications' = notifications
      ]_vars

\* A Cancel has just succeeded on a booking that had been confirmed, and whose
\* payment status, amount and deposit are not the defaults.
C3_Witness ==
    /\ response.action = "cancel"
    /\ response.outcome = "ok"
    /\ \E pk \in BookingIds :
          /\ bookings[pk].status = "cancelled"
          /\ bookings[pk].payment_status = "paid"
          /\ bookings[pk].deposit > 0
          /\ NotificationsOf(notifications, "booking_confirmed", pk) # {}

\* C4: Cancel by an authenticated user who is not staff and neither the booking's
\* client nor its designer ends with the permission error, not with not-found,
\* and leaves the booking's status as it was.
C4_CancelByOthersForbidden ==
    [][\A user \in Requesters, pk \in BookingPks :
            (/\ pk \in BookingIds
             /\ user.is_authenticated
             /\ ~user.is_staff
             /\ user.id # bookings[pk].client
             /\ user.id # bookings[pk].designer
             /\ BookingViewSet_cancel(user, pk))
            => /\ response'.outcome = "forbidden"
               /\ bookings'[pk].status = bookings[pk].status
      ]_vars

----------------------------------------------------------------------------
(* Properties of booking creation (SpecCreate).                            *)

\* The serializer accepts the value the body gives for a decimal key, or the key
\* is absent: stated from the field's documented range, amount, deposit >= 0.
NotNegative(data, name) == name \in DOMAIN data => data[name] >= 0

\* C5: a booking that Create has just made has status pending, payment status
\* pending, the requesting user as client and the design's designer as designer,
\* whatever status, payment_status, client or designer the body supplied.
C5_CreateSetsPartiesAndStatuses ==
    [][\A user \in Requesters, data \in BookingBodies :
            (/\ BookingViewSet_create(user, data)
             /\ response'.outcome = "created")
            => /\ Len(bookings') = Len(bookings) + 1
               /\ LET booking == bookings'[Len(bookings')]
                  IN  /\ booking.status = "pending"
                      /\ booking.payment_status = "pending"
                      /\ booking.client = user.id
                      /\ booking.design = data["design_id"]
                      /\ booking.designer = designs[data["design_id"]].designer
      ]_vars

\* A Create whose body supplied status, payment_status, client and designer has
\* just succeeded, and the new booking has none of the supplied values.
C5_Witness ==
    /\ response.action = "create"
    /\ response.outcome = "created"
    /\ {"status", "payment_status", "client", "designer"} \subseteq DOMAIN response.body
    /\ \E id \in response.data :
          /\ bookings[id].status # response.body["status"]
          /\ bookings[id].payment_status # response.body["payment_status"]
          /\ bookings[id].client # response.body["client"]
          /\ bookings[id].designer # response.body["designer"]

\* C6: a Create whose body omits amount succeeds and the booking's amount is the
\* design's price; a Create whose body omits deposit succeeds and the booking's
\* deposit is 0.  (The requester is authenticated, the design exists and the
\* other key, when present, is not negative.)
C6_CreateDefaultsAmountAndDeposit ==
    [][\A user \in Requesters, data \in BookingBodies :
            (/\ BookingViewSet_create(user, data)
             /\ user.is_authenticated
             /\ "design_id" \in DOMAIN data
             /\ data["design_id"] \in DesignIds
             /\ NotNegative(data, "amount")
             /\ NotNegative(data, "deposit"))
            => /\ "amount" \notin DOMAIN data =>
                    /\ response'.outcome = "created"
                    /\ bookings'[Len(bookings')].amount = designs[data["design_id"]].price
               /\ "deposit" \notin DOMAIN data =>
                    /\ response'.outcome = "created"
                    /\ bookings'[Len(bookings')].deposit = 0
      ]_vars

\* C7: a successful Create adds exactly one notification: of type
\* booking_request, for the new booking's designer, unread, with related_id the
\* new booking's id; none for the client or anyone else.
C7_CreateNotifiesDesigner ==
    [][\A user \in Requesters, data \in BookingBodies :
            (/\ BookingViewSet_create(user, data)
             /\ response'.outcome = "created")
            => notifications' = Append(notifications,
                   [user |-> bookings'[Len(bookings')].designer,
                    notification_type |-> "booking_request",
                    related_id |-> Len(bookings'),
                    is_read |-> FALSE])
      ]_vars

\* A Create by a client who is not the designer has just succeeded and the last
\* notification is the designer's booking_request for the new booking.
C7_Witness ==
    /\ response.action = "create"
    /\ response.outcome = "created"
    /\ notifications # <<>>
    /\ \E id \in response.data :
          /\ bookings[id].client # bookings[id].designer
          /\ notifications[Len(notifications)].user = bookings[id].designer
          /\ notifications[Len(notifications)].notification_type = "booking_request"
          /\ notifications[Len(notifications)].related_id = id

\* C8: a Create with a negative amount or a negative deposit ends with the
\* validation error, a Create by an unauthenticated requester with the
\* authentication error; neither adds a booking or a notification.
C8_CreateRejectsNegativeAndAnonymous ==
    [][\A user \in Requesters, data \in BookingBodies :
            /\ (/\ BookingViewSet_create(user, data)
                /\ user.is_authenticated
                /\ ~(NotNegative(data, "amount") /\ NotNegative(data, "deposit")))
               => /\ response'.outcome = "bad_request"
                  /\ bookings' = bookings
                  /\ notifications' = notifications
            /\ (/\ BookingViewSet_create(user, data)
                /\ ~user.is_authenticated)
               => /\ response'.outcome = "not_authenticated"
                  /\ bookings' = bookings
                  /\ notifications' = notifications
      ]_vars

\* A Create with a negative amount has just been rejected, the body otherwise
\* complete, with a booking already in the table.
C8_Witness ==
    /\ response.action = "create"
    /\ response.outcome = "bad_request"
    /\ {"design_id", "amount", "deposit"} \subseteq DOMAIN response.body
    /\ response.body["design_id"] \in DesignIds
    /\ response.body["amount"] < 0
    /\ bookings # <<>>

----------------------------------------------------------------------------
(* Properties of the catalogue (SpecCatalog).                              *)

\* C9: for an anonymous requester, every design the listing returns, and every
\* design a retrieve by id returns, is approved, whatever the query string
\* (designer=<id> and designer=me included).
C9_AnonymousSeesApprovedOnly ==
    [][/\ \A query_params \in DesignQueryParams :
            DesignViewSet_list(AnonymousUser, query_params)
            => \A d \in response'.data : designs[d].status = "approved"
       /\ \A pk \in DesignPks, query_params \in DesignQueryParams :
            DesignViewSet_retrieve(AnonymousUser, pk, query_params)
            => \A d \in response'.data : designs[d].status = "approved"
      ]_vars

\* C10: for an authenticated requester who is not staff, a listing filtered by
\* designer=<id> returns only designs that are approved or the requester's own.
C10_DesignerFilterKeepsVisibility ==
    [][\A user \in Requesters, query_params \in DesignQueryParams :
            (/\ user.is_authenticated
             /\ ~user.is_staff
             /\ "designer" \in DOMAIN query_params
             /\ isdigit(query_params["designer"])
             /\ DesignViewSet_list(user, query_params))
            => \A d \in response'.data :
                   designs[d].status = "approved" \/ designs[d].designer = user.id
      ]_vars

\* The designs a requester may see: approved, or the requester's own, or any for
\* staff (canSeeDesign of the specification).
canSeeDesign(user, d) ==
    \/ designs[d].status = "approved"
    \/ user.is_authenticated /\ designs[d].designer = user.id
    \/ user.is_staff

\* C11: a listing with no designer filter returns exactly the designs the
\* requester may see (all of them for staff; the approved ones and the
\* requester's own for an authenticated non-staff requester; the approved ones
\* for an anonymous requester), narrowed by ?status= when it is given.
C11_ListWithoutDesignerFilter ==
    [][response'.action = "design_list" =>
       \A user \in Requesters,
          query_params \in {q \in DesignQueryParams : "designer" \notin DOMAIN q} :
            (/\ DesignFilter_is_valid(query_params)
             /\ DesignViewSet_list(user, query_params))
            => /\ response'.outcome = "ok"
               /\ response'.data =
                    {d \in DesignIds :
                        /\ canSeeDesign(user, d)
                        /\ "status" \in DOMAIN query_params
                              => designs[d].status = query_params["status"]}
      ]_vars

\* A listing has just returned a design that is not approved and left out
\* another that is not approved either: the requester's own against someone
\* else's.
C11_Witness ==
    /\ response.action = "design_list"
    /\ response.outcome = "ok"
    /\ \E d \in response.data : d \in DesignIds /\ designs[d].status # "approved"
    /\ \E d \in DesignIds \ response.data : designs[d].status # "approved"

\* C12: a design that the creation endpoint has just made has status pending and
\* the requesting user as designer, whatever status or designer the body gave.
C12_CreateSetsPendingAndDesigner ==
    [][(response'.action = "design_create" /\ response'.outcome = "created") =>
       \A user \in Requesters, data \in DesignBodies :
            DesignViewSet_create(user, data)
            => /\ design_seq' \in DOMAIN designs' \ DOMAIN designs
               /\ designs'[design_seq'].status = "pending"
               /\ designs'[design_seq'].designer = user.id
      ]_vars

\* A creation whose body gave status approved and another user as designer has
\* just succeeded; the design is pending and its designer is not the one given.
C12_Witness ==
    /\ response.action = "design_create"
    /\ response.outcome = "created"
    /\ {"status", "designer"} \subseteq DOMAIN response.body
    /\ \E id \in response.data :
          /\ id \in DesignIds
          /\ response.body["status"] = "approved"
          /\ designs[id].status = "pending"
          /\ designs[id].designer # response.body["designer"]

\* C13: no API request of a requester who is not staff (create, PUT, PATCH,
\* delete) changes the status of an existing design.
C13_StatusChangedByStaffOnly ==
    [][\A user \in Requesters :
            ~user.is_staff =>
            \A pk \in DesignPks :
               (\/ \E data \in DesignUpdateBodies, partial \in BOOLEAN :
                       DesignViewSet_update(user, pk, data, partial)
                \/ \E data \in DesignBodies : DesignViewSet_create(user, data)
                \/ \E query_params \in DesignerQueryParams :
                       DesignViewSet_destroy(user, pk, query_params))
               => \A d \in DOMAIN designs \cap DOMAIN designs' :
                      designs'[d].status = designs[d].status
      ]_vars

----------------------------------------------------------------------------
(* Properties of booking mutations whose notification fails (SpecFaults).  *)

----------------------------------------------------------------------------
(* Properties of likes (SpecLike).                                         *)

\* C15: once every like request that read a design has completed, the design's
\* like count is its initial value, 0, plus the number of completed like
\* requests on it, however the requests were interleaved.
C15_LikesCountEveryRequest ==
    \A pk \in DesignIds :
        (\A r \in LikeRequestIds :
            ~(like_requests[r].pc = "loaded" /\ like_requests[r].pk = pk))
        => designs[pk].likes =
             Cardinality({r \in LikeRequestIds :
                            /\ like_requests[r].pc = "responded"
                            /\ like_requests[r].pk = pk})

----------------------------------------------------------------------------
(* Properties of the notifications' read state (SpecNotify).               *)

\* The unread notifications of a user in a notification table.
Unread(table, user) ==
    {n \in 1..Len(table) : table[n].user = user.id /\ ~table[n].is_read}

\* C16: markAllRead by a user with N > 0 unread notifications succeeds, reports
\* N and leaves exactly those N read, none of the user unread and everything
\* else as it was; with no unread notification it ends with the 400 variant and
\* changes nothing (so it does right after a successful one).
C16_MarkAllRead ==
    [][response'.action = "mark_all_read" =>
       \A user \in Requesters :
            (/\ user.is_authenticated
             /\ NotificationViewSet_mark_all_read(user))
            => IF Unread(notifications, user) # {}
               THEN /\ response'.outcome = "ok"
                    /\ response'.body["marked"] =
                          Cardinality(Unread(notifications, user))
                    /\ Unread(notifications', user) = {}
                    /\ notifications' =
                          [n \in 1..Len(notifications) |->
                              IF n \in Unread(notifications, user)
                              THEN [notifications[n] EXCEPT !.is_read = TRUE]
                              ELSE notifications[n]]
               ELSE /\ response'.outcome = "bad_request"
                    /\ notifications' = notifications
      ]_vars

\* markAllRead has just marked two notifications read while another user's
\* notification stays unread.
C16_Witness ==
    /\ response.action = "mark_all_read"
    /\ response.outcome = "ok"
    /\ response.body["marked"] = 2
    /\ \A n \in response.data : notifications[n].is_read
    /\ \E n \in 1..Len(notifications) : ~notifications[n].is_read

\* C17: markRead by an authenticated user on an existing notification of another
\* user ends with the permission error and leaves its is_read flag as it was.
C17_MarkReadOfOthersForbidden ==
    [][\A user \in Requesters, pk \in NotificationPks :
            (/\ pk \in NotificationIds
             /\ user.is_authenticated
             /\ notifications[pk].user # user.id
             /\ NotificationViewSet_mark_read(user, pk))
            => /\ response'.outcome = "forbidden"
               /\ notifications'[pk].is_read = notifications[pk].is_read
      ]_vars

----------------------------------------------------------------------------
(* Properties of booking visibility (SpecVisibility).                      *)

\* C18: the booking listing returns no booking twice; for staff it returns every
\* booking, for another authenticated requester exactly the bookings whose
\* client or designer the requester is.  A retrieve by id succeeds for exactly
\* those bookings.
C18_BookingVisibility ==
    [][response'.action \in {"booking_list", "booking_retrieve"} =>
       \A user \in Requesters :
            user.is_authenticated =>
            LET visible == IF user.is_staff
                           THEN 1..Len(bookings)
                           ELSE {b \in 1..Len(bookings) :
                                    \/ bookings[b].client = user.id
                                    \/ bookings[b].designer = user.id}
            IN  /\ BookingViewSet_list(user)
                   => LET rows == response'.data
                      IN  /\ response'.outcome = "ok"
                          /\ \A i, j \in 1..Len(rows) : rows[i] = rows[j] => i = j
                          /\ {rows[i] : i \in 1..Len(rows)} = visible
                /\ \A pk \in BookingPks :
                      BookingViewSet_retrieve(user, pk)
                      => IF pk \in visible
                         THEN response'.outcome = "ok" /\ response'.data = <<pk>>
                         ELSE response'.outcome = "not_found"
      ]_vars

\* A listing has just returned, once, a booking whose client is also its
\* designer.
C18_Witness ==
    /\ response.action = "booking_list"
    /\ response.outcome = "ok"
    /\ Len(response.data) = 1
    /\ bookings[response.data[1]].client = bookings[response.data[1]].designer

----------------------------------------------------------------------------
(* Properties of design images (SpecImages).                               *)

\* C19: for a requester who is neither the design's designer nor staff, every
\* request that adds, updates or deletes an image of the design (upload_images,
\* and create, PUT, PATCH and DELETE on the nested route) fails and leaves the
\* images as they were.
C19_ImagesModifiedByOwnerOrStaffOnly ==
    [][\A user \in Requesters, design_pk \in DesignPks :
            (/\ design_pk \in DesignIds
             /\ user.id # designs[design_pk].designer
             /\ ~user.is_staff)
            => ((\/ \E files \in 0..2, data \in ImageBodies :
                       DesignViewSet_upload_images(user, design_pk, files, data)
                 \/ \E data \in ImageBodies :
                       DesignImageViewSet_create(user, design_pk, data)
                 \/ \E pk \in ImagesOf(design_pk), data \in ImageBodies,
                       partial \in BOOLEAN :
                       DesignImageViewSet_update(user, design_pk, pk, data, partial)
                 \/ \E pk \in ImagesOf(design_pk) :
                       DesignImageViewSet_destroy(user, design_pk, pk))
                => /\ response'.outcome \notin {"ok", "created", "no_content"}
                   /\ images' = images)
      ]_vars

----------------------------------------------------------------------------
(* The terminal statuses of a booking (Spec).                              *)

\* C20: once a booking is cancelled or completed, no step changes its status.
C20_TerminalStatuses ==
    [][\A pk \in BookingPks :
            (/\ pk \in BookingIds
             /\ bookings[pk].status \in {"cancelled", "completed"})
            => bookings'[pk].status = bookings[pk].status
      ]_vars

----------------------------------------------------------------------------
(* Properties of the life of a booking (SpecLifecycle).                    *)

\* C21: no Create, PUT, PATCH, Confirm or Cancel sets payment_status to a value
\* other than pending: every booking that was created and changed through these
\* operations alone has payment_status = pending in every reachable state,
\* whatever the request bodies supply.
C21_PaymentStatusStaysPending ==
    \A b \in BookingIds : bookings[b].payment_status = "pending"

\* A PATCH that supplied payment_status was answered 200 on a confirmed booking.
C21_Witness ==
    /\ response.action = "booking_update"
    /\ response.outcome = "ok"
    /\ "payment_status" \in DOMAIN response.body
    /\ response.body["payment_status"] # "pending"
    /\ \E b \in response.data : bookings[b].status = "confirmed"

\* C29: for bookings created and changed through Create, PUT, PATCH, Confirm
\* and Cancel alone, status is always one of pending, confirmed, cancelled
\* (in_progress and completed are never reached), and a PUT or PATCH never
\* changes the status, the client or the designer of a booking, whatever its
\* body supplies.
C29_StatusWithinApiValues ==
    /\ [](\A b \in BookingIds :
            bookings[b].status \in {"pending", "confirmed", "cancelled"})
    /\ [][response'.action = "booking_update" =>
            /\ Len(bookings') = Len(bookings)
            /\ \A b \in BookingIds :
                   /\ bookings'[b].status = bookings[b].status
                   /\ bookings'[b].client = bookings[b].client
                   /\ bookings'[b].designer = bookings[b].designer]_vars

----------------------------------------------------------------------------
(* Properties of the requests by id (SpecLookup).                          *)

----------------------------------------------------------------------------
(* Properties of the likes (SpecLike), continued.                          *)

\* C23: the like count of a design never decreases: in every sequence and
\* interleaving of requests on the design, each stored value of likes is at
\* least the one before it.
C23_LikesNeverDecrease ==
    [][\A d \in DesignIds :
          d \in DOMAIN designs' => designs'[d].likes >= designs[d].likes]_vars

----------------------------------------------------------------------------
(* Properties of the booking engine (Spec), continued.                     *)

\* C24: Confirm by the designer or by staff of a booking whose design reference
\* has become null completes as a unit: it succeeds, the status becomes
\* confirmed and one booking_confirmed notification for the client is added.
C24_ConfirmWithoutDesign ==
    [][response'.action = "confirm" =>
        \A user \in Requesters, pk \in BookingIds :
            (/\ bookings[pk].design = NULL
             /\ user.is_authenticated
             /\ bookings[pk].designer = user.id \/ user.is_staff
             /\ BookingViewSet_confirm(user, pk)) =>
                /\ response'.outcome = "ok"
                /\ bookings'[pk].status = "confirmed"
                /\ notifications' = Append(notifications,
                       Notification_create(bookings[pk].client,
                                           "booking_confirmed", pk))]_vars

----------------------------------------------------------------------------
(* Properties of the catalogue (SpecCatalog), continued.                   *)

\* C25: only the owner of a design or staff can update or delete it: a PUT, a
\* PATCH or a DELETE of a design by an authenticated user who is neither staff
\* nor the design's designer fails and leaves the design table as it was, also
\* when the design is approved and so visible to them.
C25_DesignModifiedByOwnerOrStaffOnly ==
    [][response'.action \in {"design_update", "design_destroy"} =>
        \A user \in Requesters, pk \in DesignIds :
            (/\ user.is_authenticated
             /\ ~user.is_staff
             /\ designs[pk].designer # user.id) =>
                /\ \A data \in DesignUpdateBodies, partial \in BOOLEAN :
                       DesignViewSet_update(user, pk, data, partial) =>
                           /\ response'.outcome # "ok"
                           /\ designs' = designs
                /\ \A query_params \in DesignerQueryParams :
                       DesignViewSet_destroy(user, pk, query_params) =>
                           /\ response'.outcome # "no_content"
                           /\ designs' = designs]_vars

----------------------------------------------------------------------------
(* Properties of the bookings' parties (SpecVisibility, SpecCreate),       *)
(* continued.                                                              *)

C28_CreateForVisibleDesignOnly ==
    [][response'.action = "create" =>
        \A user \in Requesters, data \in BookingBodies :
            (/\ ~user.is_staff
             /\ "design_id" \in DOMAIN data
             /\ data["design_id"] \in DesignIds
             /\ designs[data["design_id"]].status # "approved"
             /\ designs[data["design_id"]].designer # user.id
             /\ BookingViewSet_create(user, data)) =>
                /\ response'.outcome \notin {"created", "ok"}
                /\ UNCHANGED <<bookings, notifications>>]_vars

----------------------------------------------------------------------------
(* Properties of the notifications (SpecNotify), continued.                *)

\* C30: the read-state of notifications is monotone and confined to their
\* owner.  Every notification is created unread; mark_read and mark_all_read
\* by a user change only notifications of that user, and only from unread to
\* read; no operation sets is_read back to false, changes the user, the type
\* or the related_id of a notification, or removes one.
C30_ReadStateMonotoneOwnerConfined ==
    [][/\ Len(notifications') >= Len(notifications)
       /\ \A n \in NotificationIds :
              /\ notifications'[n].user = notifications[n].user
              /\ notifications'[n].notification_type =
                     notifications[n].notification_type
              /\ notifications'[n].related_id = notifications[n].related_id
              /\ notifications[n].is_read => notifications'[n].is_read
       /\ \A n \in (1..Len(notifications')) \ NotificationIds :
              notifications'[n].is_read = FALSE
       /\ response'.action \notin {"mark_read", "mark_all_read"} =>
              \A n \in NotificationIds : notifications'[n] = notifications[n]
       /\ (/\ response'.action \in {"mark_read", "mark_all_read"}
           /\ notifications' # notifications) =>
              \A user \in Requesters :
                  (\/ \E pk \in NotificationPks :
                         NotificationViewSet_mark_read(user, pk)
                   \/ NotificationViewSet_mark_all_read(user)) =>
                      \A n \in NotificationIds :
                          notifications'[n] # notifications[n] =>
                              notifications[n].user = user.id]_vars

\* mark_read was answered 200 for a notification that is now read, while a
\* notification of another user is still unread.
C30_Witness ==
    /\ response.action = "mark_read"
    /\ response.outcome = "ok"
    /\ \E n \in response.data, m \in NotificationIds :
           /\ notifications[n].is_read
           /\ notifications[m].user # notifications[n].user
           /\ ~notifications[m].is_read

----------------------------------------------------------------------------
(* Properties of the concurrent updates (SpecRace).                        *)

\* C26: a PUT or PATCH of a booking that runs concurrently with a Confirm or a
\* Cancel of it never overwrites the status they wrote: a booking that is
\* confirmed stays confirmed in every step that is not a Confirm or a Cancel,
\* and a booking for which a booking_confirmed notification exists is not
\* pending.
C26_UpdateKeepsConfirmedStatus ==
    /\ [][response'.action \notin {"confirm", "cancel"} =>
            \A b \in BookingIds :
                bookings[b].status = "confirmed" =>
                    bookings'[b].status = "confirmed"]_vars
    /\ [](\A b \in BookingIds :
            NotificationsOf(notifications, "booking_confirmed", b) # {} =>
                bookings[b].status # "pending")

====
